---------------------------- MODULE Spec2Model ----------------------------
(***************************************************************************)
(* A model of the WorldFund browser front end: the service singletons      *)
(* (AuthService, CampaignService, WLDPaymentService), the AuthContext      *)
(* provider, the wallet-auth handshake driven from LandingPage and         *)
(* MiniKitProvider, the protected routes and the campaign forms.           *)
(*                                                                         *)
(* JavaScript runs one task at a time.  A step of the model is one task:   *)
(* an event handler, or the continuation of an async function after a      *)
(* network call or the wallet prompt returned, run up to the next such     *)
(* await, together with the React render that follows it.  Awaits on       *)
(* promises that are already settled (authService.logout, verifyToken,     *)
(* checkAuthStatus) only yield to the microtask queue, which drains before *)
(* the next task, so they do not end a step.                               *)
(***************************************************************************)
EXTENDS Integers, Sequences, FiniteSets, TLC

VARIABLES
    env,            \* import.meta.env: the build-time configuration
    localStorage,   \* the two session keys of window.localStorage
    svcCall,        \* the last service method call: its request and result
    authState,      \* AuthProvider: the AuthState record
    checkPending,   \* a checkSession run is due (mount effect or storage event)
    navTimer,       \* login's setTimeout(navigate('/dashboard')) is pending
    route,          \* the location the router shows
    redirected,     \* the last step ended with ProtectedRoute's <Navigate to="/landing">
    landing,        \* LandingPage: isConnectingWallet, pageError
    miniKit,        \* MiniKitProvider: isMiniKitInitialized, isAttemptingAuthViaWindow
    hs,             \* the wallet-auth handshakes in flight, one per invocation
    lastHs,         \* the handshake that finished in the last step, if one did
    lastOp,         \* the checkSession or logout that the last step ran, if it ran one
    tracker,        \* CampaignTracker on the dashboard
    page,           \* the campaign component on screen
    comp            \* the state of that component

svcVars == <<env, svcCall>>

formVars == <<page, comp>>

authVars ==
    <<authState, checkPending, navTimer, route, redirected, landing, miniKit, hs, lastHs,
      lastOp, tracker>>

(***************************************************************************)
(* JavaScript values.  NULL stands for null and undefined; a string is     *)
(* falsy when it is NULL or empty.                                         *)
(***************************************************************************)
NULL == "<null>"

Truthy(v) == v # NULL /\ v # ""

\* a || b on strings
Or(a, b) == IF Truthy(a) THEN a ELSE b

(***************************************************************************)
(* What the backend and the network can answer to one fetch().             *)
(*   net   - fetch() resolved (FALSE: it rejected with an Error whose      *)
(*           message is `message`)                                         *)
(*   ok    - res.ok                                                        *)
(*   parse - res.json() resolves (FALSE: it rejects with a SyntaxError)    *)
(*   message - body.message of a parsed error body                         *)
(*   data  - the parsed body of an OK response                             *)
(***************************************************************************)
ThrownMessages == {"", "Failed to fetch"}
ServerMessages == {NULL, "server says no"}
SyntaxErrorMessage == "Unexpected token < in JSON"

NoData == [nonce |-> NULL, token |-> NULL, walletAddress |-> NULL, id |-> NULL, item |-> NULL]

Responses(dataSet) ==
    {[net |-> FALSE, ok |-> FALSE, parse |-> FALSE, message |-> m, data |-> NoData] :
        m \in ThrownMessages}
    \cup {[net |-> TRUE, ok |-> FALSE, parse |-> TRUE, message |-> m, data |-> NoData] :
        m \in ServerMessages}
    \cup {[net |-> TRUE, ok |-> FALSE, parse |-> FALSE, message |-> NULL, data |-> NoData]}
    \cup {[net |-> TRUE, ok |-> TRUE, parse |-> FALSE, message |-> NULL, data |-> NoData]}
    \cup {[net |-> TRUE, ok |-> TRUE, parse |-> TRUE, message |-> NULL, data |-> d] :
        d \in dataSet}

\* the answers that differ in kind: one network error, one error status, and
\* every OK body
Replies(dataSet) ==
    {resp \in Responses(dataSet) :
        /\ resp.message \in {NULL, "Failed to fetch"}
        /\ resp.net => resp.parse}

\* the request failed: network error, non-OK status or unparsable body
Failed(resp) == ~resp.net \/ ~resp.ok \/ ~resp.parse

\* the network call failed or the response status is not OK
FailedOrNotOk(resp) == ~resp.net \/ ~resp.ok

(***************************************************************************)
(* Results of the service methods.  settled tells whether the promise the  *)
(* method returned resolved or rejected.                                   *)
(***************************************************************************)
Resolved(success, error, data) ==
    [settled |-> "resolved", success |-> success, error |-> error, data |-> data]

Rejected(error) ==
    [settled |-> "rejected", success |-> FALSE, error |-> error, data |-> NoData]

NoResult == [settled |-> "none", success |-> FALSE, error |-> NULL, data |-> NoData]

\* catch (error) { return { success: false, error: error.message || fallback } }
CatchMut(message, fallback) == Resolved(FALSE, message, NoData)

Catch(message, fallback) == Resolved(FALSE, Or(message, fallback), NoData)

(***************************************************************************)
(* AuthService (src/services/AuthService.ts)                               *)
(***************************************************************************)
AuthService_API_KEY == Or(env.VITE_WORLD_APP_API, env.VITE_APP_BACKEND_API_KEY)

AuthService_API_BASE ==
    Or(Or(env.VITE_AMPLIFY_API, env.VITE_APP_BACKEND_API_URL), "/api")

NoHeaders == [ContentType |-> NULL, xApiKey |-> NULL, Authorization |-> NULL]

Bearer(token) == "Bearer " \o token

AuthService_getHeaders(includeAuth) ==
    [ContentType |-> "application/json",
     xApiKey |-> IF Truthy(AuthService_API_KEY) THEN AuthService_API_KEY ELSE NULL,
     Authorization |->
        IF includeAuth /\ Truthy(localStorage.token)
        THEN Bearer(localStorage.token) ELSE NULL]

\* the try block of getNonce, verifyWalletSignature and verifyWorldIdProof up to
\* the OK body: errorBody = !res.ok ? await res.json().catch(() => ({})) : null
AuthService_notOk(resp, statusText, networkText) ==
    IF ~resp.net THEN Catch(resp.message, networkText)
    ELSE Resolved(FALSE, Or(IF resp.parse THEN resp.message ELSE NULL, statusText), NoData)

getNonce(resp) ==
    IF ~resp.net \/ ~resp.ok
    THEN AuthService_notOk(resp, "Failed to fetch nonce (status)",
                           "Network error while fetching nonce")
    ELSE IF ~resp.parse
    THEN Catch(SyntaxErrorMessage, "Network error while fetching nonce")
    ELSE IF ~Truthy(resp.data.nonce)
    THEN Resolved(FALSE, "Nonce not found in response", NoData)
    ELSE Resolved(TRUE, NULL, [NoData EXCEPT !.nonce = resp.data.nonce])

verifyWalletSignature(resp) ==
    IF ~resp.net \/ ~resp.ok
    THEN AuthService_notOk(resp, "Verification failed (status)",
                           "Network error during verification")
    ELSE IF ~resp.parse
    THEN Catch(SyntaxErrorMessage, "Network error during verification")
    ELSE IF ~Truthy(resp.data.token) \/ ~Truthy(resp.data.walletAddress)
    THEN Resolved(FALSE, "Token or wallet address missing from response", NoData)
    ELSE Resolved(TRUE, NULL, [NoData EXCEPT !.token = resp.data.token,
                                             !.walletAddress = resp.data.walletAddress])

\* localStorage after verifyWalletSignature: the session is persisted on success
verifyWalletSignature_store(result) ==
    IF result.success
    THEN [token |-> result.data.token, address |-> result.data.walletAddress]
    ELSE localStorage

verifyWorldIdProof(resp) ==
    IF ~resp.net \/ ~resp.ok
    THEN AuthService_notOk(resp, "Verification failed (status)",
                           "Network error during verification")
    ELSE Resolved(TRUE, NULL, NoData)

\* AuthService.logout and the catch branch of checkAuthStatus
NoSession == [token |-> NULL, address |-> NULL]

checkAuthStatus ==
    [isAuthenticated |-> Truthy(localStorage.token) /\ Truthy(localStorage.address),
     token |-> Or(localStorage.token, NULL),
     walletAddress |-> Or(localStorage.address, NULL)]

(***************************************************************************)
(* CampaignService (src/services/CampaignService.ts)                       *)
(***************************************************************************)
CampaignService_API_KEY == Or(env.VITE_WORLD_APP_API, env.VITE_APP_BACKEND_API_KEY)

CampaignService_API_BASE ==
    Or(Or(env.VITE_AMPLIFY_API, env.VITE_APP_BACKEND_API_URL), "/api")

CampaignService_getHeaders ==
    [ContentType |-> "application/json",
     xApiKey |-> IF Truthy(CampaignService_API_KEY) THEN CampaignService_API_KEY ELSE NULL,
     Authorization |->
        IF Truthy(checkAuthStatus.token) THEN Bearer(checkAuthStatus.token) ELSE NULL]

\* createCampaign, updateCampaign, deleteCampaign, recordDonation:
\*   const body = await res.json().catch(() => ({}));
\*   if (!res.ok) throw new Error(body.message || statusText);
\*   return { success: true, ... };
\* } catch (error) { return { success: false, error: error.message || fallback } }
CampaignService_write(resp, statusText, fallback, data) ==
    IF ~resp.net THEN Catch(resp.message, fallback)
    ELSE IF ~resp.ok
    THEN Catch(Or(IF resp.parse THEN resp.message ELSE NULL, statusText), fallback)
    ELSE Resolved(TRUE, NULL, data)

\* fetchAllCampaigns, fetchCampaign, fetchUserCampaigns:
\*   if (!res.ok) throw new Error(statusText);
\*   const data = await res.json(); return { success: true, ...data };
CampaignService_read(resp, statusText, fallback) ==
    IF ~resp.net THEN Catch(resp.message, fallback)
    ELSE IF ~resp.ok THEN Catch(statusText, fallback)
    ELSE IF ~resp.parse THEN Catch(SyntaxErrorMessage, fallback)
    ELSE Resolved(TRUE, NULL, [NoData EXCEPT !.item = resp.data.item])

createCampaign(resp) ==
    CampaignService_write(resp, "Failed to create campaign (status)",
        "Failed to create campaign",
        [NoData EXCEPT !.id = IF resp.parse THEN resp.data.id ELSE NULL])

fetchAllCampaigns(resp) ==
    CampaignService_read(resp, "Failed to fetch campaigns (status)",
                         "Failed to fetch campaigns")

fetchCampaign(resp) ==
    CampaignService_read(resp, "Campaign not found (status)", "Failed to fetch campaign")

updateCampaign(resp) ==
    CampaignService_write(resp, "Failed to update campaign (status)",
                          "Failed to update campaign", NoData)

deleteCampaign(resp) ==
    CampaignService_write(resp, "Failed to delete campaign (status)",
                          "Failed to delete campaign", NoData)

recordDonation(resp) ==
    CampaignService_write(resp, "Failed to record donation (status)",
                          "Failed to record donation", NoData)

fetchUserCampaigns(resp) ==
    CampaignService_read(resp, "Failed to fetch user campaigns (status)",
                         "Failed to fetch user campaigns")

(***************************************************************************)
(* WLDPaymentService (src/services/WLDPaymentService.ts)                   *)
(***************************************************************************)
WLDPaymentService_getHeaders ==
    [ContentType |-> "application/json",
     xApiKey |-> IF Truthy(env.VITE_WORLD_APP_API) THEN env.VITE_WORLD_APP_API ELSE NULL,
     Authorization |->
        IF Truthy(checkAuthStatus.token) THEN Bearer(checkAuthStatus.token) ELSE NULL]

\* getApiBase throws when VITE_AMPLIFY_API is not set: no request is issued then
WLDPaymentService_hasApiBase == Truthy(env.VITE_AMPLIFY_API)

donateWLD(resp) ==
    IF ~WLDPaymentService_hasApiBase
    THEN Catch("Backend API URL is not configured", "Failed to donate WLD")
    ELSE IF ~resp.net THEN Catch(resp.message, "Failed to donate WLD")
    ELSE IF ~resp.ok
    THEN Catch(Or(IF resp.parse THEN resp.message ELSE "Failed to record donation",
                  "Failed to record donation"), "Failed to donate WLD")
    ELSE IF ~resp.parse THEN Catch(SyntaxErrorMessage, "Failed to donate WLD")
    ELSE Resolved(TRUE, NULL, NoData)

(***************************************************************************)
(* The values the backend can put into an OK body.                         *)
(***************************************************************************)
ServerNonces == {"nonce-0001", "n7"}
Tokens == {"hdr.payload.sig"}
Addresses == {"0xA11CE"}
CampaignIds == {"c1"}
Items == {"v1", "v2"}

NonceData == {[NoData EXCEPT !.nonce = n] : n \in ServerNonces \cup {NULL}}

VerifyData ==
    {[NoData EXCEPT !.token = t, !.walletAddress = a] :
        t \in Tokens \cup {NULL}, a \in Addresses \cup {NULL}}

CreateData == {[NoData EXCEPT !.id = i] : i \in CampaignIds \cup {NULL}}

ItemData == {[NoData EXCEPT !.item = x] : x \in Items \cup {NULL}}

EmptyData == {NoData}

\* the sessions a run of this program can have left in localStorage
StoredSessions ==
    {NoSession} \cup {[token |-> t, address |-> a] : t \in Tokens, a \in Addresses}

EnvValues(v) == {NULL, v}

Envs ==
    [VITE_AMPLIFY_API : EnvValues("https://amplify"),
     VITE_APP_BACKEND_API_URL : EnvValues("https://backend"),
     VITE_WORLD_APP_API : EnvValues("key-world"),
     VITE_APP_BACKEND_API_KEY : EnvValues("key-backend"),
     DEV : {"dev", NULL}]

(***************************************************************************)
(* One call of a service method: the request it issues, if any, and the    *)
(* result it settles with for the response resp.                           *)
(***************************************************************************)
NoRequest == [httpMethod |-> NULL, path |-> NULL, headers |-> NoHeaders]

NoCall ==
    [service |-> NULL, method |-> NULL, sent |-> FALSE, request |-> NoRequest,
     failedOrNotOk |-> FALSE, result |-> NoResult]

Call(service, method, httpMethod, path, headers, resp, result) ==
    [service |-> service, method |-> method, sent |-> TRUE,
     request |-> [httpMethod |-> httpMethod, path |-> path, headers |-> headers],
     failedOrNotOk |-> FailedOrNotOk(resp), result |-> result]

Call_getNonce ==
    \E resp \in Responses(NonceData) :
        /\ svcCall' = Call("AuthService", "getNonce", "GET", "/auth/nonce",
                           AuthService_getHeaders(FALSE), resp, getNonce(resp))
        /\ UNCHANGED <<localStorage, env, authVars, formVars>>

Call_verifyWalletSignature ==
    \E resp \in Responses(VerifyData) :
        /\ svcCall' = Call("AuthService", "verifyWalletSignature", "POST",
                           "/auth/verify-signature", AuthService_getHeaders(FALSE),
                           resp, verifyWalletSignature(resp))
        /\ localStorage' = verifyWalletSignature_store(verifyWalletSignature(resp))
        /\ UNCHANGED <<env, authVars, formVars>>

Call_verifyWorldIdProof ==
    \E resp \in Responses(EmptyData) :
        /\ svcCall' = Call("AuthService", "verifyWorldIdProof", "POST", "/verify-worldid",
                           AuthService_getHeaders(TRUE), resp, verifyWorldIdProof(resp))
        /\ UNCHANGED <<localStorage, env, authVars, formVars>>

Call_logout ==
    /\ svcCall' = [NoCall EXCEPT !.service = "AuthService", !.method = "logout",
                                 !.result = Resolved(TRUE, NULL, NoData)]
    /\ localStorage' = NoSession
    /\ UNCHANGED <<env, authVars, formVars>>

\* the result of method m of CampaignService for the response resp
CampaignService_result(m, resp) ==
    CASE m = "createCampaign" -> createCampaign(resp)
      [] m = "fetchAllCampaigns" -> fetchAllCampaigns(resp)
      [] m = "fetchCampaign" -> fetchCampaign(resp)
      [] m = "updateCampaign" -> updateCampaign(resp)
      [] m = "deleteCampaign" -> deleteCampaign(resp)
      [] m = "recordDonation" -> recordDonation(resp)
      [] OTHER -> fetchUserCampaigns(resp)

CampaignService_call(m, httpMethod, path, dataSet) ==
    \E resp \in Responses(dataSet) :
        /\ svcCall' = Call("CampaignService", m, httpMethod, path,
                           CampaignService_getHeaders, resp, CampaignService_result(m, resp))
        /\ UNCHANGED <<localStorage, env, authVars, formVars>>

Call_createCampaign ==
    CampaignService_call("createCampaign", "POST", "/campaigns", CreateData)

Call_fetchAllCampaigns ==
    CampaignService_call("fetchAllCampaigns", "GET", "/campaigns", ItemData)

Call_fetchCampaign ==
    CampaignService_call("fetchCampaign", "GET", "/campaigns/{id}", ItemData)

Call_updateCampaign ==
    CampaignService_call("updateCampaign", "PUT", "/campaigns/{id}", EmptyData)

Call_deleteCampaign ==
    CampaignService_call("deleteCampaign", "DELETE", "/campaigns/{id}", EmptyData)

Call_recordDonation ==
    CampaignService_call("recordDonation", "POST", "/campaigns/{id}/donate", EmptyData)

Call_fetchUserCampaigns ==
    CampaignService_call("fetchUserCampaigns", "GET", "/users/{address}/campaigns",
                         ItemData)

Call_donateWLD ==
    \E resp \in Responses(EmptyData) :
        /\ svcCall' =
            IF WLDPaymentService_hasApiBase
            THEN Call("WLDPaymentService", "donateWLD", "POST", "/campaigns/{id}/donate",
                      WLDPaymentService_getHeaders, resp, donateWLD(resp))
            ELSE [NoCall EXCEPT !.service = "WLDPaymentService", !.method = "donateWLD",
                                !.result = donateWLD(resp)]
        /\ UNCHANGED <<localStorage, env, authVars, formVars>>

(***************************************************************************)
(* AuthContext (src/components/AuthContext.tsx)                            *)
(***************************************************************************)
\* no checkSession or logout ran; for checkSession, found tells whether both
\* keys were stored and isValid whether verifyToken accepted the token
NoOp == [name |-> NULL, found |-> FALSE, isValid |-> FALSE]

\* useState<AuthState>({...}): loading until the session was checked
InitialAuthState ==
    [isAuthenticated |-> FALSE, walletAddress |-> NULL, sessionToken |-> NULL,
     isLoading |-> TRUE, error |-> NULL, nonce |-> NULL]

\* the state login() sets
LoggedInMut(token, address) ==
    [isAuthenticated |-> TRUE, walletAddress |-> token, sessionToken |-> address,
     isLoading |-> FALSE, error |-> NULL, nonce |-> NULL]

LoggedIn(token, address) ==
    [isAuthenticated |-> TRUE, walletAddress |-> address, sessionToken |-> token,
     isLoading |-> FALSE, error |-> NULL, nonce |-> NULL]

\* the state logout() and checkSession() set when there is no valid session
LoggedOut ==
    [isAuthenticated |-> FALSE, walletAddress |-> NULL, sessionToken |-> NULL,
     isLoading |-> FALSE, error |-> NULL, nonce |-> NULL]

storeSessionData(token, address) == [token |-> token, address |-> address]

clearStoredSessionDataMut == localStorage

clearStoredSessionData == NoSession

\* AuthService.verifyToken: the token must be a three-part JWT whose payload
\* decodes, is not expired and names a wallet address.  expired is what the
\* comparison of payload.exp with Date.now() gives at the time of the call.
TokenParts(token) == IF token = "hdr.payload.sig" THEN 3 ELSE 1

verifyToken(token, expired) ==
    IF TokenParts(token) # 3 THEN [isValid |-> FALSE, error |-> "Invalid token format"]
    ELSE IF expired THEN [isValid |-> FALSE, error |-> "Token expired"]
    ELSE [isValid |-> TRUE, error |-> NULL]

\* setAuthState(prev => ({ ...prev, isLoading: true, error: null }))
Loading(a) == [a EXCEPT !.isLoading = TRUE, !.error = NULL]

\* setAuthState(prev => ({ ...prev, isLoading: false, error: message }))
ErroredMut(a, message) == [LoggedOut EXCEPT !.error = message]

Errored(a, message) == [a EXCEPT !.isLoading = FALSE, !.error = message]

(***************************************************************************)
(* ProtectedRoute (src/components/ProtectedRoute.tsx) and the routes of    *)
(* App (src/App.tsx)                                                       *)
(***************************************************************************)
ProtectedRoutes == {"/dashboard", "/tip-jar", "/new-campaign", "/campaigns/:id/edit"}
PublicRoutes == {"/landing", "/campaigns"}
Routes == PublicRoutes \cup ProtectedRoutes

ProtectedRouteMut(a) ==
    IF a.isLoading THEN "children"
    ELSE IF ~a.isAuthenticated THEN "Navigate" ELSE "children"

ProtectedRoute(a) ==
    IF a.isLoading THEN "LoadingFallback"
    ELSE IF ~a.isAuthenticated THEN "Navigate" ELSE "children"

\* what the router shows at route r under auth state a
Element(r, a) == IF r \in ProtectedRoutes THEN ProtectedRoute(a) ELSE "public"

\* <Navigate to="/landing" replace /> takes effect with the render
RouteAfter(r, a) == IF Element(r, a) = "Navigate" THEN "/landing" ELSE r

DashboardShown(r, a) == r = "/dashboard" /\ Element(r, a) = "children"

(***************************************************************************)
(* The wallet-auth handshake: LandingPage.handleConnectWallet              *)
(* (src/pages/LandingPage.tsx), window.__triggerWalletAuth and             *)
(* triggerMiniKitWalletAuth (src/MiniKitProvider.tsx), getNonceForMiniKit  *)
(* and loginWithWallet (AuthContext).                                      *)
(*                                                                         *)
(* Each invocation that gets past its guard occupies one entry of hs:      *)
(*   pc     - "nonce": GET /auth/nonce is in flight; "wallet": the wallet  *)
(*            prompt is open; "verify": POST /auth/verify-signature is in  *)
(*            flight                                                       *)
(*   origin - "page": handleConnectWallet; "window": a direct call of      *)
(*            window.__triggerWalletAuth                                   *)
(*   via    - "std": the standard flow of handleConnectWallet; "window":   *)
(*            the body of window.__triggerWalletAuth                       *)
(*   live   - the LandingPage instance whose handler runs is still mounted *)
(*   asked  - the nonce passed to MiniKit.commandsAsync.walletAuth         *)
(*   signed - the nonce of the message in the wallet's payload             *)
(*   posted - the nonce in the body of POST /auth/verify-signature         *)
(*   steps  - the steps of the handshake taken so far                      *)
(*   nonceRequests, verifyRequests - the requests sent to each endpoint    *)
(*   serverNonce - the argument triggerMiniKitWalletAuth was called with   *)
(*   walletStatus - the status of the wallet's finalPayload, "none" when   *)
(*            it returned no payload                                       *)
(*   trigger - how the call of triggerMiniKitWalletAuth settled            *)
(***************************************************************************)
MaxInvocations == 2

Invocations == 1..MaxInvocations

IdleSlot ==
    [pc |-> "idle", origin |-> NULL, via |-> NULL, live |-> FALSE, asked |-> NULL,
     signed |-> NULL, posted |-> NULL, steps |-> {}, nonceRequests |-> 0,
     verifyRequests |-> 0, serverNonce |-> NULL, walletStatus |-> NULL,
     trigger |-> "none", granted |-> NoSession]

LandingFresh == [isConnectingWallet |-> FALSE, pageError |-> NULL]

DebugTriggerFailed == "Wallet authentication via debug trigger failed. Check console."

\* what the wallet can answer to MiniKit.commandsAsync.walletAuth({ nonce: asked })
ForeignNonce == "nonce-9999"

WalletResults(asked) ==
    {[hasPayload |-> FALSE, status |-> NULL, msgKind |-> "missing", nonce |-> NULL],
     [hasPayload |-> TRUE, status |-> "error", msgKind |-> "missing", nonce |-> NULL],
     [hasPayload |-> TRUE, status |-> "error", msgKind |-> "object", nonce |-> asked],
     [hasPayload |-> TRUE, status |-> "success", msgKind |-> "missing", nonce |-> NULL],
     [hasPayload |-> TRUE, status |-> "success", msgKind |-> "text", nonce |-> NULL]}
    \cup {[hasPayload |-> TRUE, status |-> "success", msgKind |-> k, nonce |-> n] :
            k \in {"object", "json"}, n \in {asked, ForeignNonce, NULL}}

\* triggerMiniKitWalletAuth before the prompt: the nonce check and MiniKit.install
triggerMiniKitWalletAuth_beforeMut(serverNonce, installOk) ==
    IF ~installOk THEN "Failed to initialize MiniKit: install failed" ELSE NULL

triggerMiniKitWalletAuth_before(serverNonce, installOk) ==
    IF ~Truthy(serverNonce) \/ Len(serverNonce) < 8
    THEN "A valid server-issued nonce is required to trigger wallet auth."
    ELSE IF ~installOk THEN "Failed to initialize MiniKit: install failed"
    ELSE NULL

\* triggerMiniKitWalletAuth after the prompt: the error it throws, NULL when it
\* returns finalPayload
triggerMiniKitWalletAuth_afterMut(w) ==
    IF ~w.hasPayload
    THEN "MiniKit wallet authentication did not complete successfully (no payload). User might have cancelled."
    ELSE NULL

triggerMiniKitWalletAuth_after(w) ==
    IF ~w.hasPayload
    THEN "MiniKit wallet authentication did not complete successfully (no payload). User might have cancelled."
    ELSE IF w.status # "success" THEN "MiniKit auth failed: " \o w.status
    ELSE NULL

\* loginWithWallet up to the POST: the error it throws, NULL when it goes on
loginWithWallet_before(w) ==
    IF w.msgKind = "missing" THEN "Invalid authentication payload: message is missing"
    ELSE IF w.msgKind = "text" THEN SyntaxErrorMessage
    ELSE IF ~Truthy(Or(w.nonce, "")) THEN "Nonce missing in signed message from wallet"
    ELSE NULL

\* const signedNonce = messageObj.nonce || ''; verifyWalletSignature(authResult, signedNonce)
signedNonce(w) == Or(w.nonce, "")

(***************************************************************************)
(* CampaignTracker (src/components/CampaignTracker.tsx), shown by the      *)
(* dashboard                                                               *)
(***************************************************************************)
TrackerOff ==
    [mounted |-> FALSE, pc |-> "idle", loading |-> TRUE, error |-> NULL,
     campaigns |-> NULL, requests |-> 0]

\* useEffect(() => { fetchUserCampaigns() }, [walletAddress])
fetchUserCampaigns_start(a) ==
    IF ~Truthy(a.walletAddress) THEN [TrackerOff EXCEPT !.mounted = TRUE]
    ELSE [TrackerOff EXCEPT !.mounted = TRUE, !.pc = "fetching", !.requests = 1]

(***************************************************************************)
(* The render that ends a step.  a, r, l, h and t are the auth state, the  *)
(* route, the LandingPage state, the handshakes and the tracker as the     *)
(* step's handler left them, f the handshake the step finished.            *)
(***************************************************************************)
\* LandingPage: useEffect(() => { if (authError) setPageError(authError) }, [authError])
authErrorEffect(l, a, changed) ==
    IF Truthy(a.error) /\ changed THEN [l EXCEPT !.pageError = a.error] ELSE l

Render(a, r, l, h, t, f) ==
    LET r2 == RouteAfter(r, a)
        wasLanding == route = "/landing"
        isLanding == r2 = "/landing"
        wasDash == DashboardShown(route, authState)
        isDash == DashboardShown(r2, a)
    IN  /\ authState' = a
        /\ route' = r2
        /\ redirected' = (r2 # r)
        /\ landing' =
            IF ~isLanding THEN LandingFresh
            ELSE IF wasLanding THEN authErrorEffect(l, a, a.error # authState.error)
            ELSE authErrorEffect(LandingFresh, a, TRUE)
        /\ hs' =
            IF wasLanding /\ ~isLanding
            THEN [i \in Invocations |-> [h[i] EXCEPT !.live = FALSE]]
            ELSE h
        /\ lastHs' = f
        /\ tracker' =
            IF ~isDash THEN TrackerOff
            ELSE IF wasDash /\ a.walletAddress = authState.walletAddress THEN t
            ELSE fetchUserCampaigns_start(a)

(***************************************************************************)
(* AuthProvider: checkSession, run by the mount effect and by the storage  *)
(* event listener; logout, called from the dashboard.                      *)
(***************************************************************************)
checkSessionMut ==
    /\ checkPending
    /\ checkPending' = FALSE
    /\ \E expired \in BOOLEAN :
        LET token == localStorage.token
            address == localStorage.address
            found == Truthy(token) /\ Truthy(address)
            valid == found /\ verifyToken(token, expired).isValid
        IN  /\ localStorage' =
                localStorage
            /\ Render(IF found THEN LoggedIn(token, address) ELSE LoggedOut,
                      route, landing, hs, tracker, IdleSlot)
            /\ lastOp' = [name |-> "checkSession", found |-> found, isValid |-> valid]
    /\ UNCHANGED <<navTimer, miniKit, svcVars, formVars>>

checkSession ==
    /\ checkPending
    /\ checkPending' = FALSE
    /\ \E expired \in BOOLEAN :
        LET token == localStorage.token
            address == localStorage.address
            found == Truthy(token) /\ Truthy(address)
            valid == found /\ verifyToken(token, expired).isValid
        IN  /\ localStorage' =
                IF found /\ ~valid THEN clearStoredSessionData ELSE localStorage
            /\ Render(IF valid THEN LoggedIn(token, address) ELSE LoggedOut,
                      route, landing, hs, tracker, IdleSlot)
            /\ lastOp' = [name |-> "checkSession", found |-> found, isValid |-> valid]
    /\ UNCHANGED <<navTimer, miniKit, svcVars, formVars>>

\* another tab of this application logs in or out: the keys change and the
\* storage event makes handleStorageChange call checkSession
handleStorageChange ==
    /\ \E s \in StoredSessions :
        /\ s # localStorage
        /\ localStorage' = s
    /\ checkPending' = TRUE
    /\ lastHs' = IdleSlot
    /\ lastOp' = NoOp
    /\ UNCHANGED <<authState, navTimer, route, redirected, landing, miniKit, hs, tracker,
                   svcVars, formVars>>

\* Dashboard.handleLogout: await logout(); navigate('/landing')
logoutMut ==
    /\ DashboardShown(route, authState)
    /\ localStorage' = localStorage
    /\ Render(LoggedOut, "/landing", landing, hs, tracker, IdleSlot)
    /\ lastOp' = [NoOp EXCEPT !.name = "logout"]
    /\ UNCHANGED <<checkPending, navTimer, miniKit, svcVars, formVars>>

logout ==
    /\ DashboardShown(route, authState)
    /\ localStorage' = clearStoredSessionData
    /\ Render(LoggedOut, "/landing", landing, hs, tracker, IdleSlot)
    /\ lastOp' = [NoOp EXCEPT !.name = "logout"]
    /\ UNCHANGED <<checkPending, navTimer, miniKit, svcVars, formVars>>

\* setTimeout(() => navigate('/dashboard', { replace: true }), 0) of login()
navigateToDashboard ==
    /\ navTimer
    /\ navTimer' = FALSE
    /\ Render(authState, "/dashboard", landing, hs, tracker, IdleSlot)
    /\ lastOp' = NoOp
    /\ UNCHANGED <<localStorage, checkPending, miniKit, svcVars, formVars>>

\* the user follows a link of the application
Navigate ==
    \E r \in Routes :
        /\ r # route
        /\ Render(authState, r, landing, hs, tracker, IdleSlot)
        /\ lastOp' = NoOp
        /\ UNCHANGED <<localStorage, checkPending, navTimer, miniKit, svcVars, formVars>>

\* the page is loaded afresh at route r: only localStorage survives
Reload ==
    \E r \in Routes :
        /\ authState' = InitialAuthState
        /\ checkPending' = TRUE
        /\ navTimer' = FALSE
        /\ route' = r
        /\ redirected' = FALSE
        /\ landing' = LandingFresh
        /\ miniKit' = [isMiniKitInitialized |-> FALSE, isAttemptingAuthViaWindow |-> FALSE]
        /\ hs' = [i \in Invocations |-> IdleSlot]
        /\ lastHs' = IdleSlot
        /\ lastOp' = NoOp
        /\ tracker' = TrackerOff
        /\ UNCHANGED <<localStorage, svcVars, formVars>>

\* MiniKitProvider's initializeMiniKit effect succeeded
initializeMiniKit ==
    /\ ~miniKit.isMiniKitInitialized
    /\ miniKit' = [miniKit EXCEPT !.isMiniKitInitialized = TRUE]
    /\ lastHs' = IdleSlot
    /\ lastOp' = NoOp
    /\ UNCHANGED <<localStorage, authState, checkPending, navTimer, route, redirected,
                   landing, hs, tracker, svcVars, formVars>>

\* CampaignTracker: the response to GET /users/{address}/campaigns
fetchUserCampaigns_done ==
    /\ tracker.pc = "fetching"
    /\ \E resp \in Replies(ItemData) :
        LET result == fetchUserCampaigns(resp)
        IN  tracker' =
                IF result.success /\ Truthy(result.data.item)
                THEN [tracker EXCEPT !.pc = "idle", !.loading = FALSE,
                                     !.campaigns = result.data.item]
                ELSE [tracker EXCEPT !.pc = "idle", !.loading = FALSE,
                                     !.error = Or(result.error, "Failed to load campaigns")]
    /\ lastHs' = IdleSlot
    /\ lastOp' = NoOp
    /\ UNCHANGED <<localStorage, authState, checkPending, navTimer, route, redirected,
                   landing, miniKit, hs, svcVars, formVars>>

(***************************************************************************)
(* The handshake's steps.                                                   *)
(***************************************************************************)
Free(i) == hs[i].pc = "idle" /\ \A j \in Invocations : j < i => hs[j].pc # "idle"

\* getNonceForMiniKit up to the fetch, entered from origin through via
Begin(i, origin, via) ==
    [hs EXCEPT ![i] = [IdleSlot EXCEPT !.pc = "nonce", !.origin = origin, !.via = via,
                                       !.live = (origin = "page"),
                                       !.steps = {"nonceRequested"},
                                       !.nonceRequests = 1]]

\* the handshakes in flight once that of entry i ended, in the order they began
Remove(i) ==
    [j \in Invocations |->
        IF j < i THEN hs[j] ELSE IF j + 1 \in Invocations THEN hs[j + 1] ELSE IdleSlot]

\* the catch and finally blocks of the caller, for the handshake of slot: what
\* they leave in LandingPage and in MiniKitProvider
LandingAfter(slot, ok, message) ==
    IF slot.origin = "page" /\ slot.live
    THEN [isConnectingWallet |-> FALSE,
          pageError |-> IF ok THEN landing.pageError
                        ELSE IF slot.via = "std" THEN message
                        ELSE DebugTriggerFailed]
    ELSE landing

MiniKitAfter(slot) ==
    IF slot.via = "window" THEN [miniKit EXCEPT !.isAttemptingAuthViaWindow = FALSE]
    ELSE miniKit

\* the handshake of entry i ends as slot in auth state a, with the steps it took
EndOf(i, slot, a, steps, ok, message) ==
    /\ miniKit' = MiniKitAfter(slot)
    /\ Render(a, route, LandingAfter(slot, ok, message), Remove(i), tracker,
              [slot EXCEPT !.pc = IF ok THEN "done" ELSE "failed", !.steps = steps])

End(i, a, steps, ok, message) == EndOf(i, hs[i], a, steps, ok, message)

\* the guard of handleConnectWallet, also the disabled attribute of its button
handleConnectWallet_guard == landing.isConnectingWallet \/ authState.isLoading

\* the guard of window.__triggerWalletAuth
triggerWalletAuth_guard == miniKit.isAttemptingAuthViaWindow

\* LandingPage: the Connect Wallet button, or the Account tab while signed out
handleConnectWallet ==
    /\ route = "/landing"
    /\ ~authState.isAuthenticated
    /\ ~handleConnectWallet_guard
    /\ IF Truthy(env.DEV) /\ miniKit.isMiniKitInitialized
       THEN IF triggerWalletAuth_guard
            THEN /\ landing' = [isConnectingWallet |-> FALSE,
                                pageError |-> DebugTriggerFailed]
                 /\ lastHs' = IdleSlot
                 /\ UNCHANGED <<authState, route, redirected, hs, tracker, miniKit>>
            ELSE \E i \in Invocations :
                    /\ Free(i)
                    /\ miniKit' = [miniKit EXCEPT !.isAttemptingAuthViaWindow = TRUE]
                    /\ Render(Loading(authState), route,
                              [isConnectingWallet |-> TRUE, pageError |-> NULL],
                              Begin(i, "page", "window"), tracker, IdleSlot)
       ELSE \E i \in Invocations :
                /\ Free(i)
                /\ Render(Loading(authState), route,
                          [isConnectingWallet |-> TRUE, pageError |-> NULL],
                          Begin(i, "page", "std"), tracker, IdleSlot)
                /\ UNCHANGED miniKit
    /\ lastOp' = NoOp
    /\ UNCHANGED <<localStorage, checkPending, navTimer, svcVars, formVars>>

\* window.__triggerWalletAuth called from outside handleConnectWallet
triggerWalletAuth ==
    /\ miniKit.isMiniKitInitialized
    /\ ~triggerWalletAuth_guard
    /\ \E i \in Invocations :
        /\ Free(i)
        /\ miniKit' = [miniKit EXCEPT !.isAttemptingAuthViaWindow = TRUE]
        /\ Render(Loading(authState), route, landing, Begin(i, "window", "window"),
                  tracker, IdleSlot)
    /\ lastOp' = NoOp
    /\ UNCHANGED <<localStorage, checkPending, navTimer, svcVars, formVars>>

\* GET /auth/nonce answered: the rest of getNonceForMiniKit, then
\* triggerMiniKitWalletAuth up to the wallet prompt
nonceResponseMut ==
    \E i \in Invocations, resp \in Replies(NonceData) :
        LET nonceResult == getNonce(resp)
            got == nonceResult.success /\ Truthy(nonceResult.data.nonce)
            nonce == nonceResult.data.nonce
        IN  /\ hs[i].pc = "nonce"
            /\ IF got /\ triggerMiniKitWalletAuth_before(nonce, TRUE) = NULL
               THEN /\ Render([authState EXCEPT !.isLoading = FALSE, !.nonce = nonce],
                              route, landing,
                              [hs EXCEPT ![i].pc = "wallet", ![i].asked = nonce,
                                         ![i].steps = @ \cup {"nonceReturned",
                                                              "walletAsked"}],
                              tracker, IdleSlot)
                    /\ UNCHANGED miniKit
               ELSE IF hs[i].nonceRequests < 2
               THEN /\ Render(authState, route, landing,
                              [hs EXCEPT ![i].nonceRequests = @ + 1], tracker, IdleSlot)
                    /\ UNCHANGED miniKit
               ELSE End(i, Errored(authState, "Failed to fetch nonce"), hs[i].steps,
                        FALSE, "Failed to fetch nonce")
            /\ lastOp' = NoOp
            /\ UNCHANGED <<localStorage, checkPending, navTimer, svcVars, formVars>>

nonceResponse ==
    \E i \in Invocations, resp \in Replies(NonceData), installOk \in BOOLEAN :
        LET nonceResult == getNonce(resp)
            got == nonceResult.success /\ Truthy(nonceResult.data.nonce)
            nonce == nonceResult.data.nonce
            a == IF got THEN [authState EXCEPT !.isLoading = FALSE, !.nonce = nonce]
                 ELSE Errored(authState, Or(nonceResult.error, "Failed to fetch nonce"))
            thrown == IF got THEN triggerMiniKitWalletAuth_before(nonce, installOk)
                      ELSE a.error
            steps == hs[i].steps \cup (IF got THEN {"nonceReturned"} ELSE {})
        IN  /\ hs[i].pc = "nonce"
            /\ installOk \/ ~miniKit.isMiniKitInitialized
            /\ IF thrown = NULL
               THEN /\ Render(a, route, landing,
                              [hs EXCEPT ![i].pc = "wallet", ![i].asked = nonce,
                                         ![i].serverNonce = nonce,
                                         ![i].steps = steps \cup {"walletAsked"}],
                              tracker, IdleSlot)
                    /\ UNCHANGED miniKit
               ELSE IF got
               THEN EndOf(i, [hs[i] EXCEPT !.serverNonce = nonce, !.trigger = "rejected"],
                          a, steps, FALSE, thrown)
               ELSE End(i, a, steps, FALSE, thrown)
            /\ lastOp' = NoOp
            /\ UNCHANGED <<localStorage, checkPending, navTimer, svcVars, formVars>>

\* the wallet prompt answered: the rest of triggerMiniKitWalletAuth, then
\* loginWithWallet up to the POST
walletResponse ==
    \E i \in Invocations :
    \E w \in WalletResults(hs[i].asked) :
        LET refused == triggerMiniKitWalletAuth_after(w)
            invalid == loginWithWallet_before(w)
            steps == hs[i].steps \cup
                     (IF w.hasPayload /\ w.status = "success" THEN {"walletSigned"} ELSE {})
            slot == [hs[i] EXCEPT
                        !.walletStatus = IF w.hasPayload THEN w.status ELSE "none",
                        !.trigger = IF refused = NULL THEN "resolved" ELSE "rejected"]
        IN  /\ hs[i].pc = "wallet"
            /\ IF refused # NULL
               THEN EndOf(i, slot, authState, steps, FALSE, refused)
               ELSE IF invalid # NULL
               THEN EndOf(i, slot, Errored(authState, invalid), steps, FALSE, invalid)
               ELSE /\ Render(Loading(authState), route, landing,
                              [hs EXCEPT ![i].pc = "verify",
                                         ![i].walletStatus = slot.walletStatus,
                                         ![i].trigger = slot.trigger,
                                         ![i].signed = w.nonce,
                                         ![i].posted = signedNonce(w),
                                         ![i].steps = steps \cup {"verifyPosted"},
                                         ![i].verifyRequests = @ + 1],
                              tracker, IdleSlot)
                    /\ UNCHANGED miniKit
            /\ lastOp' = NoOp
            /\ UNCHANGED <<localStorage, checkPending, navTimer, svcVars, formVars>>

\* POST /auth/verify-signature answered: the rest of verifyWalletSignature and
\* of loginWithWallet, with login() on success
verifyResponse ==
    \E i \in Invocations, resp \in Replies(VerifyData) :
        LET verifyResult == verifyWalletSignature(resp)
            accepted == verifyResult.success /\ Truthy(verifyResult.data.walletAddress)
                        /\ Truthy(verifyResult.data.token)
            stored == verifyWalletSignature_store(verifyResult)
            message == Or(Or(verifyResult.error, "Wallet signature verification failed"),
                          "Wallet login failed")
            steps == hs[i].steps
                     \cup (IF verifyResult.success THEN {"verifyAccepted"} ELSE {})
                     \cup (IF stored # localStorage \/ accepted THEN {"tokenStored"}
                           ELSE {})
        IN  /\ hs[i].pc = "verify"
            /\ IF accepted
               THEN /\ localStorage' = storeSessionData(verifyResult.data.token,
                                                        verifyResult.data.walletAddress)
                    /\ navTimer' = TRUE
                    /\ EndOf(i, [hs[i] EXCEPT !.granted =
                                    [token |-> verifyResult.data.token,
                                     address |-> verifyResult.data.walletAddress]],
                             LoggedIn(verifyResult.data.token,
                                      verifyResult.data.walletAddress),
                             steps, TRUE, NULL)
               ELSE /\ localStorage' = stored
                    /\ UNCHANGED navTimer
                    /\ End(i, Errored(authState, message), steps, FALSE, message)
            /\ lastOp' = NoOp
            /\ UNCHANGED <<checkPending, svcVars, formVars>>

(***************************************************************************)
(* The application: what the browser holds after index.html was loaded.    *)
(***************************************************************************)
vars ==
    <<env, localStorage, svcCall, authState, checkPending, navTimer, route, redirected,
      landing, miniKit, hs, lastHs, lastOp, tracker, page, comp>>

\* a deployed build: the backend is configured, DEV tells a development build
DeployedEnvs ==
    {e \in Envs : /\ e.VITE_AMPLIFY_API # NULL
                  /\ e.VITE_APP_BACKEND_API_URL = NULL
                  /\ e.VITE_WORLD_APP_API # NULL
                  /\ e.VITE_APP_BACKEND_API_KEY = NULL}

Init ==
    /\ env \in DeployedEnvs
    /\ localStorage \in StoredSessions
    /\ svcCall = NoCall
    /\ authState = InitialAuthState
    /\ checkPending = TRUE
    /\ navTimer = FALSE
    /\ route \in Routes
    /\ redirected = FALSE
    /\ landing = LandingFresh
    /\ miniKit = [isMiniKitInitialized |-> FALSE, isAttemptingAuthViaWindow |-> FALSE]
    /\ hs = [i \in Invocations |-> IdleSlot]
    /\ lastHs = IdleSlot
    /\ lastOp = NoOp
    /\ tracker = TrackerOff
    /\ page = NULL
    /\ comp = NULL

Next ==
    \/ checkSession
    \/ handleStorageChange
    \/ logout
    \/ navigateToDashboard
    \/ Navigate
    \/ Reload
    \/ initializeMiniKit
    \/ fetchUserCampaigns_done
    \/ handleConnectWallet
    \/ triggerWalletAuth
    \/ nonceResponse
    \/ walletResponse
    \/ verifyResponse

Spec == Init /\ [][Next]_vars

(***************************************************************************)
(* The service singletons on their own: every method called under every    *)
(* configuration and stored session, with every answer of the backend.     *)
(***************************************************************************)
InitSvc ==
    /\ env \in Envs
    /\ localStorage \in StoredSessions
    /\ svcCall = NoCall
    /\ authState = InitialAuthState
    /\ checkPending = TRUE
    /\ navTimer = FALSE
    /\ route = "/landing"
    /\ redirected = FALSE
    /\ landing = LandingFresh
    /\ miniKit = [isMiniKitInitialized |-> FALSE, isAttemptingAuthViaWindow |-> FALSE]
    /\ hs = [i \in Invocations |-> IdleSlot]
    /\ lastHs = IdleSlot
    /\ lastOp = NoOp
    /\ tracker = TrackerOff
    /\ page = NULL
    /\ comp = NULL

NextSvc ==
    \/ Call_getNonce
    \/ Call_verifyWalletSignature
    \/ Call_verifyWorldIdProof
    \/ Call_logout
    \/ Call_createCampaign
    \/ Call_fetchAllCampaigns
    \/ Call_fetchCampaign
    \/ Call_updateCampaign
    \/ Call_deleteCampaign
    \/ Call_recordDonation
    \/ Call_fetchUserCampaigns
    \/ Call_donateWLD

SpecSvc == InitSvc /\ [][NextSvc]_vars

(***************************************************************************)
(* The campaign components.  One of them is on screen at a time; page      *)
(* names it and comp holds its state.  In every component                  *)
(*   inFlight - the requests the form has sent that are not answered yet   *)
(*   failed   - the request answered in the last step failed               *)
(***************************************************************************)
MaxPending == 2

Pages == {"CreateCampaignForm", "EditCampaignForm", "CampaignDetail", "CampaignDetailPage"}

Titles == {"", "Save the bees"}
Goals == {0, 100}

\* CreateCampaignForm (src/components/CreateCampaignForm.tsx)
\* last records the latest run of onSubmit: the form it read, whether it sent
\* POST /campaigns and the error it set
CreateCampaignForm_initial ==
    [title |-> "", goal |-> 0, loading |-> FALSE, error |-> NULL, inFlight |-> 0,
     failed |-> FALSE,
     last |-> [made |-> FALSE, title |-> "", goal |-> 0, sent |-> FALSE, error |-> NULL]]

\* EditCampaignForm: the mount effect has sent GET /campaigns/{id}
EditCampaignForm_initial ==
    [loading |-> TRUE, error |-> NULL, campaign |-> NULL, submitting |-> FALSE,
     inFlight |-> 1, failed |-> FALSE]

\* CampaignDetail of src/components: the mount effect has sent GET /campaigns/{id}
CampaignDetail_initial ==
    [loading |-> TRUE, error |-> NULL, campaign |-> NULL, donationAmount |-> 0,
     donationTxHash |-> "", donating |-> FALSE, donationSuccess |-> FALSE,
     alert |-> NULL, pc |-> "fetch", inFlight |-> 0, failed |-> FALSE,
     fetched |-> NULL]

\* no run of WLDDonationForm.handleSubmit yet
NoSubmit ==
    [made |-> FALSE, isAuthenticated |-> FALSE, amount |-> "", txHash |-> "",
     sent |-> FALSE, error |-> NULL]

\* last records the latest run of handleSubmit: the values it read, whether it
\* sent POST /campaigns/{id}/donate and the error it set
WLDDonationForm_initial ==
    [amount |-> "", txHash |-> "", loading |-> FALSE, success |-> FALSE, error |-> NULL,
     inFlight |-> 0, failed |-> FALSE, last |-> NoSubmit]

\* CampaignDetail of src/pages with its WLDDonationForm; refetches counts the
\* requests of handleDonationSuccess that are not answered yet
\* arrival records what brought the user to the page: the result the form
\* that navigated here had received, or by = "user"
CampaignDetailPage_initial ==
    [loading |-> TRUE, error |-> NULL, campaign |-> NULL, refetches |-> 0,
     failed |-> FALSE, form |-> WLDDonationForm_initial,
     arrival |-> [by |-> "user", success |-> FALSE, id |-> NULL],
     fetched |-> NULL]

initial(p) ==
    CASE p = "CreateCampaignForm" -> CreateCampaignForm_initial
      [] p = "EditCampaignForm" -> EditCampaignForm_initial
      [] p = "CampaignDetail" -> CampaignDetail_initial
      [] OTHER -> CampaignDetailPage_initial

\* the user opens the page of a component
Mount ==
    \E p \in Pages :
        /\ p # page
        /\ page' = p
        /\ comp' = initial(p)
        /\ UNCHANGED <<localStorage, svcVars, authVars>>

\* navigate(`/campaigns/${id}`)
navigateToCampaign(by, result) ==
    /\ page' = "CampaignDetailPage"
    /\ comp' = [CampaignDetailPage_initial EXCEPT
                    !.arrival = [by |-> by, success |-> result.success,
                                 id |-> result.data.id]]

\* <button type="submit" disabled={loading}>
CreateCampaignForm_disabledMut(c) == FALSE

CreateCampaignForm_disabled(c) == c.loading

CreateCampaignForm_onChange ==
    /\ page = "CreateCampaignForm"
    /\ \E title \in Titles, goal \in Goals :
        /\ <<title, goal>> # <<comp.title, comp.goal>>
        /\ comp' = [comp EXCEPT !.title = title, !.goal = goal, !.failed = FALSE]
    /\ UNCHANGED <<page, localStorage, svcVars, authVars>>

\* the checks of onSubmit (lines 180-186): the message it throws, NULL when it
\* goes on to createCampaign
CreateCampaignForm_validateMut(c) ==
    IF ~Truthy(c.title) THEN "Campaign title is required" ELSE NULL

CreateCampaignForm_validate(c) ==
    IF ~Truthy(c.title) THEN "Campaign title is required"
    ELSE IF c.goal <= 0 THEN "Funding goal must be greater than 0"
    ELSE NULL

CreateCampaignForm_onSubmit ==
    /\ page = "CreateCampaignForm"
    /\ ~CreateCampaignForm_disabled(comp)
    /\ comp.inFlight < MaxPending
    /\ LET invalid == CreateCampaignForm_validate(comp)
           run == [made |-> TRUE, title |-> comp.title, goal |-> comp.goal,
                   sent |-> invalid = NULL, error |-> invalid]
       IN  comp' =
            IF invalid # NULL
            THEN [comp EXCEPT !.error = invalid, !.loading = FALSE, !.failed = FALSE,
                              !.last = run]
            ELSE [comp EXCEPT !.error = NULL, !.loading = TRUE, !.inFlight = @ + 1,
                              !.failed = FALSE, !.last = run]
    /\ UNCHANGED <<page, localStorage, svcVars, authVars>>

\* POST /campaigns answered
CreateCampaignForm_onSubmit_done ==
    /\ page = "CreateCampaignForm"
    /\ comp.inFlight > 0
    /\ \E resp \in Responses(CreateData) :
        LET result == createCampaign(resp)
        IN  IF result.success /\ Truthy(result.data.id)
            THEN navigateToCampaign("CreateCampaignForm", result)
            ELSE /\ comp' = [comp EXCEPT
                                !.error = Or(Or(result.error, "Failed to create campaign"),
                                             "An error occurred while creating the campaign"),
                                !.loading = FALSE, !.inFlight = @ - 1,
                                !.failed = Failed(resp)]
                 /\ UNCHANGED page
    /\ UNCHANGED <<localStorage, svcVars, authVars>>

\* what the component shows its form with
Shown(c) == ~c.loading /\ ~Truthy(c.error) /\ c.campaign # NULL

\* the rest of the mount effect's fetchCampaign of EditCampaignForm and of both
\* CampaignDetail components
fetchCampaign_done(c, resp) ==
    LET result == fetchCampaign(resp)
    IN  IF result.success /\ Truthy(result.data.item)
        THEN [c EXCEPT !.campaign = result.data.item, !.loading = FALSE,
                       !.failed = Failed(resp)]
        ELSE [c EXCEPT !.error = Or(result.error, "Failed to load campaign"),
                       !.loading = FALSE, !.failed = Failed(resp)]

\* the record of the latest GET /campaigns/{id} that was answered 2xx with a
\* campaign, prev while there is none
Fetched(prev, resp) ==
    IF ~Failed(resp) /\ resp.data.item # NULL THEN resp.data.item ELSE prev

\* the campaign shown after the re-fetch that follows a donation
refreshCampaignMut(campaign, resp) == fetchCampaign(resp).data.item

refreshCampaign(campaign, resp) ==
    LET refreshResult == fetchCampaign(resp)
    IN  IF refreshResult.success /\ Truthy(refreshResult.data.item)
        THEN refreshResult.data.item
        ELSE campaign

EditCampaignForm_fetchCampaign_done ==
    /\ page = "EditCampaignForm"
    /\ comp.loading
    /\ \E resp \in Responses(ItemData) :
        comp' = [fetchCampaign_done(comp, resp) EXCEPT !.inFlight = @ - 1]
    /\ UNCHANGED <<page, localStorage, svcVars, authVars>>

\* <button type="submit" disabled={submitting}>
EditCampaignForm_disabled(c) == c.submitting

EditCampaignForm_handleSubmit ==
    /\ page = "EditCampaignForm"
    /\ Shown(comp)
    /\ ~EditCampaignForm_disabled(comp)
    /\ comp' = [comp EXCEPT !.submitting = TRUE, !.inFlight = @ + 1, !.failed = FALSE]
    /\ UNCHANGED <<page, localStorage, svcVars, authVars>>

\* PUT /campaigns/{id} answered
EditCampaignForm_handleSubmit_done ==
    /\ page = "EditCampaignForm"
    /\ comp.submitting
    /\ \E resp \in Responses(EmptyData) :
        LET result == updateCampaign(resp)
        IN  IF result.success
            THEN navigateToCampaign("EditCampaignForm", result)
            ELSE /\ comp' = [comp EXCEPT
                                !.error = Or(result.error, "Failed to update campaign"),
                                !.submitting = FALSE, !.inFlight = @ - 1,
                                !.failed = Failed(resp)]
                 /\ UNCHANGED page
    /\ UNCHANGED <<localStorage, svcVars, authVars>>

\* CampaignDetail of src/components and its donation form
DonationAmounts == {0, 5}
TxHashes == {"", "0xfeed"}

CampaignDetail_fetchCampaign_done ==
    /\ page = "CampaignDetail"
    /\ comp.pc = "fetch"
    /\ \E resp \in Responses(ItemData) :
        comp' = [fetchCampaign_done(comp, resp) EXCEPT
                    !.pc = "idle", !.fetched = Fetched(@, resp)]
    /\ UNCHANGED <<page, localStorage, svcVars, authVars>>

CampaignDetail_onChange ==
    /\ page = "CampaignDetail"
    /\ Shown(comp)
    /\ \E amount \in DonationAmounts, txHash \in TxHashes :
        /\ <<amount, txHash>> # <<comp.donationAmount, comp.donationTxHash>>
        /\ comp' = [comp EXCEPT !.donationAmount = amount, !.donationTxHash = txHash,
                                !.failed = FALSE]
    /\ UNCHANGED <<page, localStorage, svcVars, authVars>>

\* <button type="submit" disabled={donating}>
CampaignDetail_disabled(c) == c.donating

CampaignDetail_handleDonate ==
    /\ page = "CampaignDetail"
    /\ Shown(comp)
    /\ ~CampaignDetail_disabled(comp)
    /\ comp' =
        IF comp.donationAmount <= 0
        THEN [comp EXCEPT !.alert = "Please enter a valid donation amount",
                          !.failed = FALSE]
        ELSE IF ~Truthy(comp.donationTxHash)
        THEN [comp EXCEPT !.alert = "Transaction hash is required", !.failed = FALSE]
        ELSE [comp EXCEPT !.donating = TRUE, !.alert = NULL, !.pc = "record",
                          !.inFlight = @ + 1, !.failed = FALSE]
    /\ UNCHANGED <<page, localStorage, svcVars, authVars>>

\* POST /campaigns/{id}/donate answered: on success the campaign is fetched again
CampaignDetail_handleDonate_recorded ==
    /\ page = "CampaignDetail"
    /\ comp.pc = "record"
    /\ \E resp \in Responses(EmptyData) :
        LET result == recordDonation(resp)
        IN  comp' =
                IF result.success
                THEN [comp EXCEPT !.donationSuccess = TRUE, !.pc = "refresh",
                                  !.failed = Failed(resp)]
                ELSE [comp EXCEPT !.alert = Or(result.error, "Failed to process donation"),
                                  !.donating = FALSE, !.pc = "idle", !.inFlight = @ - 1,
                                  !.failed = Failed(resp)]
    /\ UNCHANGED <<page, localStorage, svcVars, authVars>>

\* the GET /campaigns/{id} that follows a recorded donation answered
CampaignDetail_handleDonate_refreshed ==
    /\ page = "CampaignDetail"
    /\ comp.pc = "refresh"
    /\ \E resp \in Responses(ItemData) :
        comp' = [comp EXCEPT
                    !.campaign = refreshCampaign(@, resp),
                    !.fetched = Fetched(@, resp),
                    !.donationAmount = 0, !.donationTxHash = "", !.donating = FALSE,
                    !.pc = "idle", !.inFlight = @ - 1, !.failed = @ \/ Failed(resp)]
    /\ UNCHANGED <<page, localStorage, svcVars, authVars>>

\* CampaignDetail of src/pages and WLDDonationForm
CampaignDetailPage_fetchCampaign_done ==
    /\ page = "CampaignDetailPage"
    /\ comp.loading
    /\ \E resp \in Responses(ItemData) :
        comp' = [fetchCampaign_done(comp, resp) EXCEPT !.fetched = Fetched(@, resp)]
    /\ UNCHANGED <<page, localStorage, svcVars, authVars>>

\* what the user can type into the amount field (/^\d*\.?\d*$/), and what
\* parseFloat makes of it, in thousandths of a WLD
Amounts == {"", ".", "0", "0.001", "5"}

parseFloat(a) ==
    CASE a = "0" -> [isNaN |-> FALSE, milli |-> 0]
      [] a = "0.001" -> [isNaN |-> FALSE, milli |-> 1]
      [] a = "5" -> [isNaN |-> FALSE, milli |-> 5000]
      [] OTHER -> [isNaN |-> TRUE, milli |-> 0]

\* getDonationInstructions: minAmount: 0.01, in thousandths
minAmount == 10

\* the checks of WLDDonationForm.handleSubmit: the error it sets, NULL when it
\* goes on to donateWLD
WLDDonationForm_validate(f, a) ==
    IF ~a.isAuthenticated THEN "Please sign in to donate"
    ELSE IF ~Truthy(f.amount)
            \/ (~parseFloat(f.amount).isNaN /\ parseFloat(f.amount).milli <= 0)
    THEN "Please enter a valid amount"
    ELSE IF ~Truthy(f.txHash) THEN "Please enter a transaction hash"
    ELSE IF ~parseFloat(f.amount).isNaN /\ parseFloat(f.amount).milli < minAmount
    THEN "Minimum donation amount is 0.01 WLD"
    ELSE NULL

\* CampaignDetail shows the form to a signed-in user; the form shows its
\* fields until a donation succeeded
WLDDonationForm_shown == Shown(comp) /\ authState.isAuthenticated /\ ~comp.form.success

\* <button type="submit" disabled={loading}>
WLDDonationForm_disabled(f) == f.loading

WLDDonationForm_onChange ==
    /\ page = "CampaignDetailPage"
    /\ WLDDonationForm_shown
    /\ \E amount \in Amounts, txHash \in TxHashes :
        /\ <<amount, txHash>> # <<comp.form.amount, comp.form.txHash>>
        /\ comp' = [comp EXCEPT !.form.amount = amount, !.form.txHash = txHash,
                                !.form.failed = FALSE, !.failed = FALSE]
    /\ UNCHANGED <<page, localStorage, svcVars, authVars>>

WLDDonationForm_handleSubmit ==
    /\ page = "CampaignDetailPage"
    /\ WLDDonationForm_shown
    /\ ~WLDDonationForm_disabled(comp.form)
    /\ comp.refetches < MaxPending
    /\ LET invalid == WLDDonationForm_validate(comp.form, authState)
           run == [made |-> TRUE, isAuthenticated |-> authState.isAuthenticated,
                   amount |-> comp.form.amount, txHash |-> comp.form.txHash,
                   sent |-> FALSE, error |-> invalid]
       IN  comp' =
            IF invalid # NULL
            THEN [comp EXCEPT !.form.error = invalid, !.form.failed = FALSE,
                              !.failed = FALSE, !.form.last = run]
            ELSE IF ~WLDPaymentService_hasApiBase
            THEN [comp EXCEPT !.form.error = Or(donateWLD(NoData).error, "Donation failed"),
                              !.form.loading = FALSE, !.form.failed = FALSE,
                              !.failed = FALSE,
                              !.form.last = [run EXCEPT !.error =
                                    Or(donateWLD(NoData).error, "Donation failed")]]
            ELSE [comp EXCEPT !.form.error = NULL, !.form.loading = TRUE,
                              !.form.inFlight = @ + 1, !.form.failed = FALSE,
                              !.failed = FALSE,
                              !.form.last = [run EXCEPT !.sent = TRUE]]
    /\ UNCHANGED <<page, localStorage, svcVars, authVars>>

\* POST /campaigns/{id}/donate answered; on success onDonationSuccess(), which
\* is CampaignDetail.handleDonationSuccess, sends GET /campaigns/{id}
WLDDonationForm_handleSubmit_done ==
    /\ page = "CampaignDetailPage"
    /\ comp.form.inFlight > 0
    /\ \E resp \in Responses(EmptyData) :
        LET result == donateWLD(resp)
        IN  comp' =
                IF result.success
                THEN [comp EXCEPT !.form.success = TRUE, !.form.amount = "",
                                  !.form.txHash = "", !.form.loading = FALSE,
                                  !.form.inFlight = @ - 1, !.form.failed = Failed(resp),
                                  !.refetches = @ + 1]
                ELSE [comp EXCEPT !.form.error = Or(result.error, "Donation failed"),
                                  !.form.loading = FALSE, !.form.inFlight = @ - 1,
                                  !.form.failed = Failed(resp)]
    /\ UNCHANGED <<page, localStorage, svcVars, authVars>>

\* the GET /campaigns/{id} of handleDonationSuccess answered
handleDonationSuccess_done ==
    /\ page = "CampaignDetailPage"
    /\ comp.refetches > 0
    /\ \E resp \in Responses(ItemData) :
        comp' = [comp EXCEPT
                    !.campaign = refreshCampaign(@, resp),
                    !.fetched = Fetched(@, resp),
                    !.refetches = @ - 1, !.failed = Failed(resp)]
    /\ UNCHANGED <<page, localStorage, svcVars, authVars>>

\* the Make Another Donation button of the success view
resetForm ==
    /\ page = "CampaignDetailPage"
    /\ Shown(comp) /\ authState.isAuthenticated /\ comp.form.success
    /\ comp' = [comp EXCEPT !.form.amount = "", !.form.txHash = "",
                            !.form.success = FALSE, !.form.error = NULL,
                            !.form.failed = FALSE, !.failed = FALSE]
    /\ UNCHANGED <<page, localStorage, svcVars, authVars>>

(***************************************************************************)
(* WorldIDAuth (src/WorldIDAuth.tsx 27-135): the button that opens the     *)
(* IDKit modal.  The effect of lines 45-73 runs with the render that       *)
(* follows every change of isAuthenticated or walletAddress, before the    *)
(* next click is handled.                                                  *)
(***************************************************************************)
\* no click on the button yet
NoClick ==
    [made |-> FALSE, opened |-> FALSE, signal |-> "", isAuthenticated |-> FALSE,
     walletAddress |-> NULL, reported |-> NULL]

\* a second wallet that can sign in from another tab while the page is shown
OtherAddresses == {"0xB0B"}

\* useEffect 45-73: the value of signal after the effect
WorldIDAuth_effect(configured, signal, a) ==
    IF ~configured THEN signal
    ELSE IF ~a.isAuthenticated \/ ~Truthy(a.walletAddress) THEN ""
    ELSE a.walletAddress

\* what the effect hands to onError (lines 47-58)
WorldIDAuth_effectError(configured) ==
    IF configured THEN NULL ELSE "WorldIDAuth component requires an app_id prop."

\* disabled attribute of the rendered button (lines 100-102 and 128)
WorldIDAuth_disabled(c, a) ==
    ~c.configured \/ ~a.isAuthenticated \/ ~Truthy(c.signal)

\* onClick 110-125 with the values of the render it closes over
WorldIDAuth_onClick_handler(c, a) ==
    IF ~a.isAuthenticated \/ ~Truthy(c.signal)
    THEN [opened |-> FALSE,
          reported |-> "User must be authenticated with a wallet address to verify."]
    ELSE [opened |-> TRUE, reported |-> NULL]

\* the component is mounted with or without its app_id and action props
WorldIDAuth_mount ==
    /\ page # "WorldIDAuth"
    /\ \E configured \in BOOLEAN :
        comp' = [configured |-> configured,
                 signal |-> WorldIDAuth_effect(configured, "", authState),
                 onError |-> WorldIDAuth_effectError(configured),
                 click |-> NoClick]
    /\ page' = "WorldIDAuth"
    /\ UNCHANGED <<localStorage, svcVars, authVars>>

\* the AuthContext value changes under the mounted component (a login, a
\* logout, or the session of another tab picked up by checkSession); the
\* component renders and its effect runs again
WorldIDAuth_authChanged ==
    /\ page = "WorldIDAuth"
    /\ \E a \in {LoggedOut} \cup {LoggedIn(t, w) : t \in Tokens, w \in Addresses \cup OtherAddresses} :
        /\ a # authState
        /\ authState' = a
        /\ localStorage' = [token |-> a.sessionToken, address |-> a.walletAddress]
        /\ comp' = [comp EXCEPT !.signal = WorldIDAuth_effect(comp.configured, @, a),
                                !.onError = WorldIDAuth_effectError(comp.configured)]
    /\ UNCHANGED <<page, svcVars, checkPending, navTimer, route, redirected, landing,
                   miniKit, hs, lastHs, lastOp, tracker>>

\* the user clicks the button; a disabled button dispatches no click event
WorldIDAuth_onClick ==
    /\ page = "WorldIDAuth"
    /\ LET r == WorldIDAuth_onClick_handler(comp, authState)
           off == WorldIDAuth_disabled(comp, authState)
       IN comp' = [comp EXCEPT
                !.click = [made |-> TRUE,
                           opened |-> ~off /\ r.opened,
                           signal |-> comp.signal,
                           isAuthenticated |-> authState.isAuthenticated,
                           walletAddress |-> authState.walletAddress,
                           reported |-> IF off THEN NULL ELSE r.reported],
                !.onError = IF off THEN @ ELSE r.reported]
    /\ UNCHANGED <<page, localStorage, svcVars, authVars>>

(***************************************************************************)
(* CampaignTracker (src/components/CampaignTracker.tsx): the campaigns of  *)
(* the user and the statistics computed from them.                         *)
(***************************************************************************)
MaxCampaigns == 2
MaxDonations == 1

\* the lists GET /users/{address}/campaigns can return: a campaign with or
\* without raised, its status and the donors of its donations in order (up
\* to MaxDonations of them, or one donor twice)
CampaignLists ==
    LET Donors == {"0xD0", "0xD1"}
        Donations == UNION {[1..n -> Donors] : n \in 0..MaxDonations}
                     \cup {<<"0xD0", "0xD0">>}
        Campaigns ==
            [hasRaised : {TRUE}, raised : {5}, status : {"active", "completed"},
             donations : Donations]
            \cup [hasRaised : {FALSE}, raised : {0}, status : {"active", "completed"},
                  donations : Donations]
    IN  UNION {[1..n -> Campaigns] : n \in 0..MaxCampaigns}

\* lines 35-40: the Set after campaign's donations were added to it
allContributorsMut(contributors, campaign) ==
    {campaign.donations[j] : j \in 1..Len(campaign.donations)}

allContributors(contributors, campaign) ==
    contributors \cup {campaign.donations[j] : j \in 1..Len(campaign.donations)}

\* lines 30-47: the statistics of result.campaigns
calculateStats(campaigns) ==
    LET isActive(c) == c.status = "active"
        reduce[i \in 0..Len(campaigns)] ==
            IF i = 0 THEN 0
            ELSE reduce[i - 1] + (IF campaigns[i].hasRaised /\ campaigns[i].raised # 0
                                  THEN campaigns[i].raised ELSE 0)
        forEach[i \in 0..Len(campaigns)] ==
            IF i = 0 THEN {} ELSE allContributors(forEach[i - 1], campaigns[i])
    IN  [totalCampaigns |-> Len(campaigns),
         totalRaised |-> reduce[Len(campaigns)],
         activeCampaigns |-> Len(SelectSeq(campaigns, isActive)),
         totalContributors |-> Cardinality(forEach[Len(campaigns)])]

\* the dashboard mounts the tracker: its state of lines 9-17, and the effect
\* sends GET /users/{address}/campaigns when there is a wallet address
CampaignTracker_mount ==
    /\ page # "CampaignTracker"
    /\ page' = "CampaignTracker"
    /\ comp' = [campaigns |-> <<>>, loading |-> TRUE, error |-> NULL,
                stats |-> [totalCampaigns |-> 0, totalRaised |-> 0,
                           activeCampaigns |-> 0, totalContributors |-> 0],
                pc |-> IF Truthy(authState.walletAddress) THEN "fetching" ELSE "idle"]
    /\ UNCHANGED <<localStorage, svcVars, authVars>>

\* GET /users/{address}/campaigns answered; a 2xx body holds campaigns or not
CampaignTracker_fetchUserCampaigns_done ==
    /\ page = "CampaignTracker"
    /\ comp.pc = "fetching"
    /\ \E resp \in Responses(EmptyData), hasCampaigns \in BOOLEAN,
          campaigns \in CampaignLists :
        LET result == fetchUserCampaigns(resp)
        IN  /\ (~result.success \/ ~hasCampaigns) => campaigns = <<>>
            /\ comp' =
                IF result.success /\ hasCampaigns
                THEN [comp EXCEPT !.campaigns = campaigns,
                                  !.stats = calculateStats(campaigns),
                                  !.loading = FALSE, !.pc = "idle"]
                ELSE [comp EXCEPT !.error = Or(result.error, "Failed to load campaigns"),
                                  !.loading = FALSE, !.pc = "idle"]
    /\ UNCHANGED <<page, localStorage, svcVars, authVars>>

InitForms ==
    /\ env \in {e \in Envs : /\ e.VITE_APP_BACKEND_API_URL = NULL
                             /\ e.VITE_WORLD_APP_API # NULL
                             /\ e.VITE_APP_BACKEND_API_KEY = NULL
                             /\ e.DEV = NULL}
    /\ \E s \in StoredSessions :
        /\ localStorage = s
        /\ authState = IF s = NoSession THEN LoggedOut ELSE LoggedIn(s.token, s.address)
    /\ svcCall = NoCall
    /\ checkPending = FALSE
    /\ navTimer = FALSE
    /\ route = "/campaigns"
    /\ redirected = FALSE
    /\ landing = LandingFresh
    /\ miniKit = [isMiniKitInitialized |-> FALSE, isAttemptingAuthViaWindow |-> FALSE]
    /\ hs = [i \in Invocations |-> IdleSlot]
    /\ lastHs = IdleSlot
    /\ lastOp = NoOp
    /\ tracker = TrackerOff
    /\ page = NULL
    /\ comp = NULL

NextForms ==
    \/ Mount
    \/ CreateCampaignForm_onChange
    \/ CreateCampaignForm_onSubmit
    \/ CreateCampaignForm_onSubmit_done
    \/ EditCampaignForm_fetchCampaign_done
    \/ EditCampaignForm_handleSubmit
    \/ EditCampaignForm_handleSubmit_done
    \/ CampaignDetail_fetchCampaign_done
    \/ CampaignDetail_onChange
    \/ CampaignDetail_handleDonate
    \/ CampaignDetail_handleDonate_recorded
    \/ CampaignDetail_handleDonate_refreshed
    \/ CampaignDetailPage_fetchCampaign_done
    \/ WLDDonationForm_onChange
    \/ WLDDonationForm_handleSubmit
    \/ WLDDonationForm_handleSubmit_done
    \/ handleDonationSuccess_done
    \/ resetForm
    \/ WorldIDAuth_mount
    \/ WorldIDAuth_authChanged
    \/ WorldIDAuth_onClick
    \/ CampaignTracker_mount
    \/ CampaignTracker_fetchUserCampaigns_done

SpecForms == InitForms /\ [][NextForms]_vars

(***************************************************************************)
(* Properties of the handshake.                                            *)
(***************************************************************************)
AllSteps ==
    {"nonceRequested", "nonceReturned", "walletAsked", "walletSigned", "verifyPosted",
     "verifyAccepted", "tokenStored"}

Ordered(steps) ==
    /\ "tokenStored" \in steps => "verifyAccepted" \in steps
    /\ "verifyAccepted" \in steps => "verifyPosted" \in steps
    /\ "verifyPosted" \in steps => "walletSigned" \in steps
    /\ "walletSigned" \in steps => "walletAsked" \in steps
    /\ "walletAsked" \in steps => "nonceReturned" \in steps
    /\ "nonceReturned" \in steps => "nonceRequested" \in steps

InFlight == {i \in Invocations : hs[i].pc # "idle"}

\* C1: in every handshake, in flight or just finished, the token is stored only
\* after POST /auth/verify-signature returned success, the POST is sent only
\* after the wallet returned a signed success payload, and the wallet is asked
\* only after GET /auth/nonce returned a nonce; a handshake that logs the user
\* in has taken every step.
C1_StepsInOrder ==
    /\ \A i \in Invocations : Ordered(hs[i].steps)
    /\ \A i \in Invocations : hs[i].pc = "wallet" => "nonceReturned" \in hs[i].steps
    /\ \A i \in Invocations : hs[i].pc = "verify" => "walletSigned" \in hs[i].steps
    /\ Ordered(lastHs.steps)
    /\ lastHs.pc = "done" => lastHs.steps = AllSteps
    /\ lastHs.pc = "failed" => "tokenStored" \notin lastHs.steps

C1_Witness ==
    /\ lastHs.pc = "done"
    /\ "tokenStored" \in lastHs.steps
    /\ localStorage.token \in Tokens

\* C2: the nonce in the body of POST /auth/verify-signature is the nonce that
\* GET /auth/nonce returned in the same handshake and the wallet was asked to sign.
C2_PostedNonceIsServerNonce ==
    \A i \in Invocations : hs[i].pc = "verify" => hs[i].posted = hs[i].asked

\* C3: at most one wallet-auth handshake is in flight at any time.
C3_AtMostOneHandshake == Cardinality(InFlight) <= 1

Quiescent == ~checkPending /\ \A i \in Invocations : hs[i].pc # "verify"

\* C8: whenever no AuthContext operation is in progress, isAuthenticated holds
\* exactly when both session keys are in localStorage, and then the session
\* token and wallet address in memory are the stored ones.
C8_SessionConsistent ==
    Quiescent =>
        /\ authState.isAuthenticated <=>
                (Truthy(localStorage.token) /\ Truthy(localStorage.address))
        /\ authState.isAuthenticated =>
                /\ authState.sessionToken = localStorage.token
                /\ authState.walletAddress = localStorage.address

C8_Witness ==
    /\ Quiescent
    /\ authState.isAuthenticated
    /\ lastHs.pc = "done"
    /\ authState.sessionToken = localStorage.token

\* C10: a protected route shows its content only when isLoading is false and
\* isAuthenticated is true, redirects to /landing when both are false, and
\* shows only the loader while isLoading is true.
C10_ProtectedRoute ==
    /\ route \in ProtectedRoutes =>
        /\ Element(route, authState) = "children" <=>
                (~authState.isLoading /\ authState.isAuthenticated)
        /\ authState.isLoading => Element(route, authState) = "LoadingFallback"
        /\ authState.isLoading \/ authState.isAuthenticated
    /\ tracker.mounted =>
        /\ route = "/dashboard"
        /\ ~authState.isLoading
        /\ authState.isAuthenticated
    /\ redirected =>
        /\ route = "/landing"
        /\ ~authState.isLoading
        /\ ~authState.isAuthenticated

C10_Witness == redirected /\ lastHs.pc = "idle" /\ localStorage = NoSession

\* the handshakes in flight and the one that finished in the last step
Handshakes == {hs[i] : i \in Invocations} \cup {lastHs}

C11_LogoutPost ==
    lastOp.name = "logout" =>
        /\ ~authState.isAuthenticated
        /\ authState.walletAddress = NULL
        /\ authState.sessionToken = NULL
        /\ authState.error = NULL
        /\ authState.nonce = NULL
        /\ ~authState.isLoading
        /\ localStorage.token = NULL
        /\ localStorage.address = NULL
        /\ route = "/landing"

\* logout ran while a handshake started from window.__triggerWalletAuth was
\* waiting for the wallet
C11_Witness ==
    /\ lastOp.name = "logout"
    /\ hs[1].pc = "wallet"
    /\ localStorage = NoSession

\* the session in memory and in localStorage is the same before and after the step
SessionUnchanged ==
    /\ authState'.isAuthenticated = authState.isAuthenticated
    /\ authState'.walletAddress = authState.walletAddress
    /\ authState'.sessionToken = authState.sessionToken
    /\ localStorage' = localStorage

\* C12: a step in which loginWithWallet fails (message missing or unparsable,
\* nonce missing in the message, signature rejected, token or address missing
\* in the response) sets error to a non-empty string and isLoading to false,
\* hands that error to its caller, and leaves isAuthenticated, walletAddress,
\* sessionToken and the localStorage keys as they were; so does the step in
\* which it sends the POST.
C12_LoginWithWalletFailure ==
    [][/\ (lastHs'.pc = "failed" /\ "walletSigned" \in lastHs'.steps) =>
            /\ Truthy(authState'.error)
            /\ ~authState'.isLoading
            /\ SessionUnchanged
            /\ (lastHs'.via = "std" /\ lastHs'.live /\ route' = "/landing") =>
                    landing'.pageError = authState'.error
       /\ \A i \in Invocations :
            (hs[i].pc = "wallet" /\ hs'[i].pc = "verify" /\ lastHs'.pc = "idle") =>
                SessionUnchanged]_vars

\* a signed-in user's second login was rejected by the backend
C12_Witness ==
    /\ lastHs.pc = "failed"
    /\ "verifyPosted" \in lastHs.steps
    /\ authState.isAuthenticated
    /\ Truthy(authState.error)

\* C13: when checkSession has finished, isAuthenticated holds exactly when
\* both keys were stored at the check and verifyToken accepted the token, and
\* then the session in memory is the stored one; when verifyToken rejected the
\* token both keys are gone from localStorage and the session in memory is
\* cleared; isLoading is false in every case.
C13_CheckSessionPost ==
    lastOp.name = "checkSession" =>
        /\ authState.isAuthenticated <=> (lastOp.found /\ lastOp.isValid)
        /\ authState.isAuthenticated =>
                /\ authState.sessionToken = localStorage.token
                /\ authState.walletAddress = localStorage.address
                /\ Truthy(localStorage.token) /\ Truthy(localStorage.address)
        /\ (lastOp.found /\ ~lastOp.isValid) =>
                /\ localStorage.token = NULL
                /\ localStorage.address = NULL
                /\ authState.sessionToken = NULL
                /\ authState.walletAddress = NULL
        /\ ~authState.isLoading

\* checkSession found a session whose token had expired
C13_Witness ==
    /\ lastOp.name = "checkSession"
    /\ lastOp.found
    /\ ~lastOp.isValid
    /\ localStorage = NoSession

\* C19: right after loginWithWallet resolved, isAuthenticated is true,
\* sessionToken and walletAddress are the token and the wallet address of the
\* verify-signature response, localStorage holds both, error and nonce are
\* null, isLoading is false, and the navigation to /dashboard is scheduled.
C19_LoginWithWalletSuccess ==
    lastHs.pc = "done" =>
        /\ "verifyAccepted" \in lastHs.steps
        /\ Truthy(lastHs.granted.token) /\ Truthy(lastHs.granted.address)
        /\ authState.isAuthenticated
        /\ authState.sessionToken = lastHs.granted.token
        /\ authState.walletAddress = lastHs.granted.address
        /\ localStorage = [token |-> lastHs.granted.token,
                           address |-> lastHs.granted.address]
        /\ authState.error = NULL /\ authState.nonce = NULL
        /\ ~authState.isLoading
        /\ navTimer

C19_Witness ==
    /\ lastHs.pc = "done" /\ lastHs.via = "std"
    /\ authState.sessionToken \in Tokens
    /\ navTimer

(***************************************************************************)
(* The application when every request and the wallet prompt are answered:  *)
(* the browser runs the continuation of an await whose promise settled.    *)
(***************************************************************************)
SpecFair ==
    /\ Init /\ [][Next]_vars
    /\ WF_vars(nonceResponse) /\ WF_vars(walletResponse) /\ WF_vars(verifyResponse)

\* a run of handleConnectWallet ended in the step just taken
RunEnded == lastHs.pc \in {"done", "failed"} /\ lastHs.origin = "page"

\* C20: every run of handleConnectWallet ends (or the page is reloaded under
\* it), and when it ends isConnectingWallet and AuthContext.isLoading are
\* false, wherever the handshake succeeded or failed.
C20_RunEndsIdle ==
    /\ [](RunEnded => ~landing.isConnectingWallet /\ ~authState.isLoading)
    /\ ((hs[1].pc # "idle") ~> (lastHs.pc \in {"done", "failed"} \/ InFlight = {}))

\* the end of a run that no other handshake overlaps
C20_EndStateAlone ==
    (RunEnded /\ InFlight = {}) =>
        ~landing.isConnectingWallet /\ ~authState.isLoading

C20_AloneWitness ==
    /\ RunEnded /\ InFlight = {}
    /\ lastHs.pc = "failed" /\ "walletSigned" \notin lastHs.steps
    /\ "walletAsked" \in lastHs.steps

(***************************************************************************)
(* Properties of the services.                                             *)
(***************************************************************************)
ServiceMethods ==
    {"getNonce", "verifyWalletSignature", "verifyWorldIdProof", "createCampaign",
     "fetchAllCampaigns", "fetchCampaign", "updateCampaign", "deleteCampaign",
     "recordDonation", "fetchUserCampaigns", "donateWLD"}

\* C5: every call of a CampaignService method, of donateWLD and of getNonce,
\* verifyWalletSignature or verifyWorldIdProof resolves; when the network call
\* failed or the status was not OK the result has success = false and a
\* non-empty error string.
C5_AlwaysResolves ==
    svcCall.method \in ServiceMethods =>
        /\ svcCall.result.settled = "resolved"
        /\ (svcCall.sent /\ svcCall.failedOrNotOk) =>
                /\ ~svcCall.result.success
                /\ Truthy(svcCall.result.error)

C5_Witness ==
    /\ svcCall.method = "updateCampaign"
    /\ svcCall.sent
    /\ svcCall.failedOrNotOk
    /\ svcCall.result.error = "Failed to update campaign"

\* an API key is configured for the services
ApiKeyConfigured == Truthy(env.VITE_WORLD_APP_API) \/ Truthy(env.VITE_APP_BACKEND_API_KEY)

\* C9: a request of CampaignService or WLDPaymentService carries
\* Authorization: Bearer t exactly when a session token t is stored, and
\* x-api-key exactly when an API key is configured; the requests to /auth/nonce
\* and /auth/verify-signature carry no Authorization header.
C9_Headers ==
    /\ (svcCall.sent /\ svcCall.service \in {"CampaignService", "WLDPaymentService"}) =>
        /\ svcCall.request.headers.Authorization =
                IF Truthy(localStorage.token) THEN Bearer(localStorage.token) ELSE NULL
        /\ Truthy(svcCall.request.headers.xApiKey) <=> ApiKeyConfigured
    /\ (svcCall.sent /\ svcCall.request.path \in {"/auth/nonce", "/auth/verify-signature"}) =>
        svcCall.request.headers.Authorization = NULL

\* C14: verifyWorldIdProof sends POST /verify-worldid only when a session
\* token is stored; with no stored token it sends nothing and resolves with
\* success = false.
C14_ProofNeedsToken ==
    svcCall.method = "verifyWorldIdProof" =>
        /\ svcCall.sent => Truthy(localStorage.token)
        /\ ~Truthy(localStorage.token) =>
                /\ ~svcCall.sent
                /\ svcCall.result.settled = "resolved"
                /\ ~svcCall.result.success

(***************************************************************************)
(* Properties of the campaign components.                                  *)
(***************************************************************************)
\* C4: each of the create form, the edit form and the two donation forms has
\* at most one of its requests in flight, and while one is in flight its
\* submit button is disabled.
C4_OneRequestPerForm ==
    /\ page = "CreateCampaignForm" =>
        /\ comp.inFlight <= 1
        /\ comp.inFlight = 1 => comp.loading
    /\ page = "EditCampaignForm" =>
        /\ comp.inFlight <= 1
        /\ comp.inFlight = 1 => (comp.loading \/ comp.submitting)
    /\ page = "CampaignDetail" =>
        /\ comp.inFlight <= 1
        /\ comp.inFlight = 1 => comp.donating
    /\ page = "CampaignDetailPage" =>
        /\ comp.form.inFlight <= 1
        /\ comp.form.inFlight = 1 => comp.form.loading

C4_Witness ==
    /\ page = "CreateCampaignForm"
    /\ comp.inFlight = 1
    /\ comp.loading
    /\ comp.title = "Save the bees"

\* C6: a component that has finished a request which failed (network error,
\* non-OK status or unparsable body) shows a non-empty error message.
C6_FailureShown ==
    /\ page \in {"CreateCampaignForm", "EditCampaignForm"} =>
        (comp.failed => Truthy(comp.error))
    /\ page = "CampaignDetail" =>
        (comp.pc = "idle" /\ comp.failed => Truthy(comp.error) \/ Truthy(comp.alert))
    /\ page = "CampaignDetailPage" =>
        /\ comp.failed => Truthy(comp.error)
        /\ comp.form.failed => Truthy(comp.form.error)

\* C16: the IDKit modal is opened only by a click made while isAuthenticated
\* is true and the signal is non-empty, the signal it is opened with is the
\* authenticated walletAddress, and a click in any other state opens nothing
\* and hands an error to onError.
C16_ModalOpening ==
    (page = "WorldIDAuth" /\ comp.click.made) =>
        LET k == comp.click IN
        /\ k.opened => /\ k.isAuthenticated
                       /\ Truthy(k.signal)
                       /\ k.signal = k.walletAddress
        /\ ~(k.isAuthenticated /\ Truthy(k.signal)) =>
                ~k.opened /\ Truthy(k.reported)

\* the part of C16 about the modal alone
C16_OpenedOnlyWithSignal ==
    (page = "WorldIDAuth" /\ comp.click.made /\ comp.click.opened) =>
        /\ comp.click.isAuthenticated
        /\ Truthy(comp.click.signal)
        /\ comp.click.signal = comp.click.walletAddress

C16_OpenedWitness ==
    /\ page = "WorldIDAuth" /\ comp.click.opened
    /\ comp.click.signal \in OtherAddresses

\* C17: WLDDonationForm sends the donation request only when the user is
\* authenticated, the amount parses to a number greater than 0 and not below
\* the minimum amount, and the transaction hash is non-empty; every other run
\* of handleSubmit sends nothing and sets an error message.
C17_DonationRequestGuard ==
    (page = "CampaignDetailPage" /\ comp.form.last.made) =>
        LET k == comp.form.last
            n == parseFloat(k.amount)
            ok == /\ k.isAuthenticated
                  /\ ~n.isNaN /\ n.milli > 0 /\ n.milli >= minAmount
                  /\ k.txHash # ""
        IN  /\ k.sent => ok
            /\ ~ok => ~k.sent /\ Truthy(k.error)

\* the runs of handleSubmit that read an amount parseFloat turns into a number
C17_NumericAmounts ==
    (page = "CampaignDetailPage" /\ comp.form.last.made
        /\ ~parseFloat(comp.form.last.amount).isNaN) =>
        LET k == comp.form.last
            n == parseFloat(k.amount)
        IN  IF n.milli > 0 /\ n.milli >= minAmount
            THEN k.sent \/ Truthy(k.error)
            ELSE ~k.sent /\ Truthy(k.error)

\* C18: CreateCampaignForm sends the create request only when the title is
\* non-empty and the goal is greater than 0, every other run of onSubmit
\* sends nothing and shows an error, and the form navigates to the campaign
\* page only with a result of success that carries an id.
C18_CreateRequestGuard ==
    /\ (page = "CreateCampaignForm" /\ comp.last.made) =>
        LET k == comp.last
            ok == k.title # "" /\ k.goal > 0
        IN  /\ k.sent => ok
            /\ ~ok => /\ ~k.sent
                      /\ Truthy(k.error)
                      /\ (<<comp.title, comp.goal>> = <<k.title, k.goal>> =>
                            comp.error = k.error /\ comp.inFlight = 0)
    /\ (page = "CampaignDetailPage" /\ comp.arrival.by = "CreateCampaignForm") =>
        comp.arrival.success /\ Truthy(comp.arrival.id)

C18_Witness ==
    /\ page = "CreateCampaignForm" /\ comp.last.made
    /\ comp.last.title # "" /\ comp.last.goal = 0
    /\ comp.error = "Funding goal must be greater than 0"

C18_NavigatedWitness ==
    page = "CampaignDetailPage" /\ comp.arrival.by = "CreateCampaignForm"

\* C21: the campaign CampaignDetail shows is the record of the latest
\* GET /campaigns/{id} answered with one; it changes only in the step that
\* answers such a GET, the answer to a recorded donation leaves it as it was,
\* and so does a re-fetch that failed.
C21_ShownIsFetched ==
    [][LET DetailPages == {"CampaignDetail", "CampaignDetailPage"}
           GetAnswered ==
               \/ page = "CampaignDetail" /\ comp.pc \in {"fetch", "refresh"}
               \/ page = "CampaignDetailPage"
                    /\ (comp.loading \/ comp'.refetches < comp.refetches)
           DonationAnswered ==
               \/ page = "CampaignDetail" /\ comp.pc = "record"
               \/ page = "CampaignDetailPage"
                    /\ comp'.form.inFlight < comp.form.inFlight
       IN  /\ page' \in DetailPages => comp'.campaign = comp'.fetched
           /\ (page \in DetailPages /\ page' = page) =>
                /\ comp'.campaign # comp.campaign =>
                        GetAnswered /\ comp'.fetched # NULL
                /\ DonationAnswered => comp'.campaign = comp.campaign
                /\ (GetAnswered /\ ~(page = "CampaignDetail" /\ comp.failed)
                        /\ comp'.failed /\ comp.campaign # NULL) =>
                        comp'.campaign = comp.campaign]_vars

\* a donation was recorded and the re-fetch replaced v1 by v2
C21_Witness ==
    /\ page = "CampaignDetail" /\ comp.donationSuccess /\ comp.pc = "idle"
    /\ comp.campaign = "v2" /\ comp.fetched = "v2"

\* a re-fetch failed and the campaign fetched at mount is still shown
C21_FailedRefetchWitness ==
    /\ page = "CampaignDetailPage" /\ comp.form.success /\ comp.refetches = 0
    /\ comp.failed /\ comp.campaign \in Items

\* C22: for every list of campaigns returned for the user, totalCampaigns is
\* the length of the list, totalRaised the sum of raised over it with a
\* missing raised counted as 0, activeCampaigns the number of campaigns of
\* status active, and totalContributors the number of distinct donors over
\* all donations of all campaigns.
C22_DashboardStatistics ==
    (page = "CampaignTracker" /\ ~comp.loading /\ comp.error = NULL) =>
        LET cs == comp.campaigns
            I == 1..Len(cs)
            raised(i) == IF cs[i].hasRaised THEN cs[i].raised ELSE 0
            sum[S \in SUBSET I] ==
                IF S = {} THEN 0
                ELSE LET i == CHOOSE x \in S : TRUE IN raised(i) + sum[S \ {i}]
        IN  /\ comp.stats.totalCampaigns = Len(cs)
            /\ comp.stats.totalRaised = sum[I]
            /\ comp.stats.activeCampaigns =
                    Cardinality({i \in I : cs[i].status = "active"})
            /\ comp.stats.totalContributors =
                    Cardinality(UNION {{cs[i].donations[j] :
                                            j \in 1..Len(cs[i].donations)} : i \in I})

\* two campaigns, one without raised, that share a donor
C22_Witness ==
    /\ page = "CampaignTracker" /\ ~comp.loading /\ comp.error = NULL
    /\ Len(comp.campaigns) = 2
    /\ ~comp.campaigns[1].hasRaised /\ comp.campaigns[2].raised = 5
    /\ comp.campaigns[1].donations = <<"0xD0", "0xD0">>
    /\ comp.campaigns[2].donations = <<"0xD1">>
    /\ comp.stats.totalContributors = 2 /\ comp.stats.totalRaised = 5

=============================================================================
